---- MODULE Spec2Model ----
(***************************************************************************)
(* Model of mcp-hub-core's MultiDatabaseManager                            *)
(* (app/core/multi_database_manager.py) and of the database endpoints that *)
(* mutate it (app/api/databases.py).                                       *)
(*                                                                         *)
(* The manager runs on one asyncio event loop: a coroutine runs without    *)
(* interruption until it awaits something that really suspends (a pool     *)
(* being created, acquired or closed, a statement on a PostgreSQL          *)
(* connection, a lock that is held).  Each action below is one such        *)
(* uninterrupted stretch of one request.  SQLite work is synchronous       *)
(* (sqlite3 is a blocking driver), so it never ends a stretch.             *)
(***************************************************************************)
EXTENDS Integers, Sequences, FiniteSets, TLC

\* ------------------------------------------------------------------ bounds
MaxEntries == 3      \* configs ever inserted into the configs dict
MaxPools == 2        \* asyncpg pools ever created
MaxRows == 1         \* rows ever inserted into one items table
MaxSize == 2             \* the largest max_size a cache is built with

Names == {"shop", "logs"}
Tasks == {"t1", "t2"}
Queriers == {"t1"}       \* the tasks that serve query requests; all serve registry requests
Statements == {"CREATE", "INSERT", "SELECT"}

\* SELECT ... WHERE category = <placeholder>, sent with the parameter map
\* {"category": "tools"}: sqlite3's named and positional style and asyncpg's.
BoundStatements == {"SELECT :category", "SELECT ?", "SELECT $1"}

\* The catalog queries of search_across_databases, sent with the map
\* {"table_pattern": "%", "search_term": "%items%"}: the SQLite one has two `?`,
\* the PostgreSQL one two `%s`.
SearchStatements == {"SEARCH ?", "SEARCH %s"}

\* The configs a request may register (DatabaseConfig: name, type, is_active;
\* the other fields only parameterise the driver).
Cfg(n, ty, act) == [name |-> n, type |-> ty, is_active |-> act, live |-> TRUE]

Configs ==
    {Cfg("shop", "postgresql", TRUE), Cfg("shop", "mysql", TRUE),
     Cfg("logs", "sqlite", TRUE), Cfg("logs", "sqlite", FALSE),
     Cfg("logs", "mongodb", TRUE)}

None == "<None>"

\* The keys the cache is called with
CacheKeys == {"a", "b", "c"}

VARIABLES
    configs,            \* self.configs: the dict's entry array, in insertion order
    connections,        \* self.connections: names holding an SQLite path handle
    connection_pools,   \* self.connection_pools: name -> pool id
    lock,               \* self._lock: the task holding it, or None
    pools,              \* every asyncpg pool created: [state, out]
    ASYNCPG_AVAILABLE,  \* import asyncpg succeeded
    AIOMYSQL_AVAILABLE, \* import aiomysql succeeded
    sqlite_db,          \* per SQLite file: -1 no items table, else committed rows
    sqlite_open,        \* sqlite3 connections that are open
    pg_db,              \* per PostgreSQL server: -1 no items table, else rows
    pc,                 \* per task: where its coroutine is suspended
    call,               \* per task: the request it serves and its arguments
    loc,                \* per task: the coroutine's local variables
    ret,                \* the response handed back by the step just taken
    inserted,           \* history: INSERTs an SQLite backend reported successful
    removedOk,          \* history: names whose removal returned ok, not registered since
    cache               \* the InMemoryCache: [max_size, od, pc, key, out]

managerVars ==
    <<configs, connections, connection_pools, lock, pools, ASYNCPG_AVAILABLE,
      AIOMYSQL_AVAILABLE, sqlite_db, sqlite_open, pg_db, pc, call, loc, ret, inserted,
      removedOk>>

vars == <<managerVars, cache>>

\* The registry and the databases as a request finds them.
Snapshot ==
    [configs |-> configs, connections |-> connections,
     connection_pools |-> connection_pools, pools |-> pools, sqlite_db |-> sqlite_db,
     pg_db |-> pg_db, removedOk |-> removedOk]

\* ------------------------------------------------------- the configs dict
\* A CPython dict keeps its entries in an array in insertion order; del leaves
\* a dummy entry in place and a new key is appended (the array is rebuilt only
\* when it is full, which needs more than MaxEntries + 1 insertions).
Dummy == [name |-> "", type |-> "", is_active |-> FALSE, live |-> FALSE]

Live(cfg) == {i \in 1..Len(cfg) : cfg[i].live}

Keys(cfg) == {cfg[i].name : i \in Live(cfg)}

Index(cfg, n) == CHOOSE i \in Live(cfg) : cfg[i].name = n

Get(cfg, n) == cfg[Index(cfg, n)]

\* self.configs[config.name] = config
DictSet(cfg, c) ==
    IF c.name \in Keys(cfg)
    THEN [cfg EXCEPT ![Index(cfg, c.name)] = c]
    ELSE Append(cfg, c)

\* del self.configs[database_name]
DictDel(cfg, n) == [cfg EXCEPT ![Index(cfg, n)] = Dummy]

\* get_database_list(): one summary per config, in dict order
RECURSIVE get_database_list(_)
get_database_list(cfg) ==
    IF cfg = <<>> THEN <<>>
    ELSE LET rest == get_database_list(Tail(cfg))
             h == Head(cfg)
         IN  IF h.live
             THEN <<[name |-> h.name, type |-> h.type, is_active |-> h.is_active]>> \o rest
             ELSE rest

ActiveNames(cfg) == {cfg[i].name : i \in {j \in Live(cfg) : cfg[j].is_active}}

\* ------------------------------------------------------------ task records
\* Python's None where a dict is expected
PyNone == [none |-> TRUE]

NoQR == [database_name |-> "", query |-> "", data |-> <<>>, columns |-> <<>>,
         row_count |-> 0, success |-> FALSE, error |-> None]

NoCall == [op |-> "none", name |-> "", config |-> Dummy, stmt |-> ""]

\* snap: the Snapshot when the call started; drv: what the
\* driver answered for each backend the call touched; atStart: the backends
\* active when the call started; yielded: the call has given the event loop
\* back at an await; result: the local `result` of search_across_databases,
\* NoQR while unbound; failed: the backends whose catalog query failed or whose
\* search raised; origin: for each entry of a search's map, the backend whose
\* query the entry was read from (snap, drv, atStart, conn, yielded, failed and
\* origin are history only); seen: the names close_all_connections' loop has
\* passed; first: the first key of the dict `results` of a fan-out, "" while
\* the dict is empty.
NoLoc == [snap |-> <<>>, pool |-> 0, cur |-> "", pos |-> 0, used |-> 0, len |-> 0,
          results |-> <<>>, drv |-> <<>>, atStart |-> {}, conn |-> FALSE,
          yielded |-> FALSE, result |-> NoQR, failed |-> {}, origin |-> <<>>,
          seen |-> {}, first |-> ""]

\* kind: "none" | "value" (the call returned) | "raised" (the call raised)
NoRet == [kind |-> "none", task |-> "", call |-> NoCall, ok |-> FALSE, status |-> 0,
          cause |-> "", qr |-> NoQR, results |-> <<>>, loc |-> NoLoc, schema |-> PyNone]

\* The response of the step just taken is sent before the loop runs anything.
Sent == ret.kind = "none"

Ready(t) == Sent /\ pc[t] = "idle"

At(t, l) == Sent /\ pc[t] = l

ManagerInit ==
    /\ configs = <<>>
    /\ connections = {}
    /\ connection_pools = <<>>
    /\ lock = None
    /\ pools = <<>>
    /\ ASYNCPG_AVAILABLE \in BOOLEAN
    /\ AIOMYSQL_AVAILABLE \in BOOLEAN
    /\ sqlite_db = [n \in Names |-> -1]
    /\ sqlite_open = 0
    /\ pg_db = [n \in Names |-> 0]
    /\ pc = [t \in Tasks |-> "idle"]
    /\ call = [t \in Tasks |-> NoCall]
    /\ loc = [t \in Tasks |-> NoLoc]
    /\ ret = NoRet
    /\ inserted = [n \in Names |-> 0]
    /\ removedOk = {}

\* InMemoryCache(max_size): an empty OrderedDict.  od holds the entries from
\* the least to the most recently used, expired telling whether the clock has
\* passed the entry's expires_at; pc is "set" while set() is at the test of
\* its eviction loop and "evict" while it is in the loop's body (it holds
\* self._lock), key the key being set, out the value the last call returned.
InMemoryCache(max_size) ==
    [max_size |-> max_size, od |-> <<>>, pc |-> "idle", key |-> "", out |-> None]

Init == ManagerInit /\ cache = InMemoryCache(MaxSize)

\* The request of task t ends with response r: its coroutine is gone.
Return(t, c, l, r) ==
    /\ pc' = [pc EXCEPT ![t] = "idle"]
    /\ call' = [call EXCEPT ![t] = NoCall]
    /\ loc' = [loc EXCEPT ![t] = NoLoc]
    /\ ret' = [r EXCEPT !.task = t, !.call = c, !.loc = l]

\* Task t suspends at label l with locals v.
Suspend(t, c, l, v) ==
    /\ pc' = [pc EXCEPT ![t] = l]
    /\ call' = [call EXCEPT ![t] = c]
    /\ loc' = [loc EXCEPT ![t] = [v EXCEPT !.yielded = TRUE]]
    /\ ret' = NoRet

\* ----------------------------------------------------------- AddDatabase
\* A duplicate check that lets every name through.
IsDuplicateNever(cfg, n) == FALSE

\* if config.name in self.configs
IsDuplicate(cfg, n) == n \in Keys(cfg)

\* The endpoint's answer to add_database's boolean: the HTTPException(400) of
\* the false branch is raised inside the try and caught by `except Exception`.
add_database_status(success) == IF success THEN 200 ELSE 500

AddResult(success, cause) ==
    [NoRet EXCEPT !.kind = IF success THEN "value" ELSE "raised", !.ok = success,
                  !.status = add_database_status(success), !.cause = cause]

\* What the branch on config.type does before its first suspension:
\* "await" (create_pool was started), "True", "False" (unsupported type) or
\* "raise" (the setup raised, add_database's except returns False).
SetupOutcome(type, asyncpg, aiomysql) ==
    CASE type = "postgresql" -> IF asyncpg THEN "await" ELSE "raise"
      [] type = "sqlite" -> "True"
      [] type = "mysql" -> IF aiomysql THEN "True" ELSE "raise"
      [] OTHER -> "False"

\* add_database up to its first suspension, the lock being free.
AddStart(t) ==
    \E c \in Configs :
        LET out == SetupOutcome(c.type, ASYNCPG_AVAILABLE, AIOMYSQL_AVAILABLE)
            cl == [NoCall EXCEPT !.op = "add", !.name = c.name, !.config = c]
            lc == [NoLoc EXCEPT !.snap = Snapshot]
        IN  /\ Ready(t)
            /\ lock = None
            /\ UNCHANGED <<cache, connection_pools, pools, ASYNCPG_AVAILABLE, AIOMYSQL_AVAILABLE,
                           sqlite_db, sqlite_open, pg_db, inserted>>
            /\ IF IsDuplicate(configs, c.name)
               THEN /\ Return(t, cl, lc, AddResult(FALSE, "DuplicateName"))
                    /\ UNCHANGED <<configs, connections, lock, removedOk>>
               ELSE /\ Len(configs) < MaxEntries
                    /\ out = "await" => Len(pools) < MaxPools
                    /\ configs' = DictSet(configs, c)
                    /\ removedOk' = removedOk \ {c.name}
                    /\ connections' = IF out = "True" /\ c.type = "sqlite"
                                      THEN connections \cup {c.name} ELSE connections
                    /\ IF out = "await"
                       THEN /\ lock' = t
                            /\ Suspend(t, cl, "add_pool", lc)
                       ELSE /\ lock' = lock
                            /\ Return(t, cl, lc, AddResult(out = "True",
                                        CASE out = "True" -> ""
                                          [] out = "raise" -> "SetupRaised"
                                          [] OTHER -> "UnsupportedEngine"))

\* asyncpg.create_pool finished: the pool is stored, or its exception ends
\* add_database with False.  Leaving `async with self._lock` frees the lock.
AddPoolDone(t) ==
    /\ At(t, "add_pool")
    /\ lock' = None
    /\ \E created \in BOOLEAN :
        IF created
        THEN /\ pools' = Append(pools, [state |-> "open", out |-> 0])
             /\ connection_pools' = (call[t].name :> (Len(pools) + 1)) @@ connection_pools
             /\ Return(t, call[t], loc[t], AddResult(TRUE, ""))
        ELSE /\ UNCHANGED <<pools, connection_pools>>
             /\ Return(t, call[t], loc[t], AddResult(FALSE, "SetupRaised"))
    /\ UNCHANGED <<cache, configs, connections, ASYNCPG_AVAILABLE, AIOMYSQL_AVAILABLE, sqlite_db,
                   sqlite_open, pg_db, inserted, removedOk>>

\* -------------------------------------------------------- RemoveDatabase
\* The endpoint's status: every exception of the try block, the
\* HTTPException(404) included, reaches `except Exception` and becomes a 500.
remove_database_status(raised) == IF raised = "" THEN 200 ELSE 500

RemoveResult(raised) ==
    [NoRet EXCEPT !.kind = IF raised = "" THEN "value" ELSE "raised",
                  !.ok = (raised = ""), !.cause = raised,
                  !.status = remove_database_status(raised)]

DropKey(f, n) == [k \in DOMAIN f \ {n} |-> f[k]]

SetPool(ps, p, st) == [ps EXCEPT ![p].state = st]

\* remove_database returning ok: the history records the name unless a
\* registration that overlapped the removal has registered it again.
NoteRemoved(n, cfg) ==
    removedOk' = IF n \in Keys(cfg) THEN removedOk ELSE removedOk \cup {n}

\* remove_database up to `await ...close()`.
RemoveStart(t) ==
    \E n \in Names :
        LET cl == [NoCall EXCEPT !.op = "remove", !.name = n]
            lc == [NoLoc EXCEPT !.snap = Snapshot]
        IN
        /\ Ready(t)
        /\ UNCHANGED <<cache, connections, lock, ASYNCPG_AVAILABLE, AIOMYSQL_AVAILABLE, sqlite_db,
                       sqlite_open, pg_db, inserted>>
        /\ IF n \notin Keys(configs)
           THEN /\ Return(t, cl, lc, RemoveResult("NotFound"))
                /\ UNCHANGED <<configs, connection_pools, pools, removedOk>>
           ELSE /\ configs' = DictDel(configs, n)
                /\ IF n \notin DOMAIN connection_pools
                   THEN /\ Return(t, cl, lc, RemoveResult(""))
                        /\ NoteRemoved(n, configs')
                        /\ UNCHANGED <<connection_pools, pools>>
                   ELSE LET p == connection_pools[n] IN
                        IF pools[p].state = "closed"
                        THEN \* close() of a closed pool returns at once
                             /\ connection_pools' = DropKey(connection_pools, n)
                             /\ Return(t, cl, lc, RemoveResult(""))
                             /\ NoteRemoved(n, configs')
                             /\ pools' = pools
                        ELSE /\ pools' = SetPool(pools, p, "closing")
                             /\ Suspend(t, cl, "rm_close", [lc EXCEPT !.pool = p])
                             /\ UNCHANGED <<connection_pools, removedOk>>

\* pool.close() finished (it waits until every connection is released): the
\* entry now stored under the name is deleted, or close()'s exception, or the
\* KeyError of the del, becomes the 500.
RemoveCloseDone(t) ==
    LET n == call[t].name
        p == loc[t].pool
    IN  /\ At(t, "rm_close")
        /\ pools[p].out = 0
        /\ pools' = SetPool(pools, p, "closed")
        /\ \E closed \in BOOLEAN :
            IF closed /\ n \in DOMAIN connection_pools
            THEN /\ connection_pools' = DropKey(connection_pools, n)
                 /\ Return(t, call[t], loc[t], RemoveResult(""))
                 /\ NoteRemoved(n, configs)
            ELSE /\ Return(t, call[t], loc[t],
                           RemoveResult(IF closed THEN "KeyError" ELSE "CloseRaised"))
                 /\ UNCHANGED <<connection_pools, removedOk>>
        /\ UNCHANGED <<cache, configs, connections, lock, ASYNCPG_AVAILABLE, AIOMYSQL_AVAILABLE,
                       sqlite_db, sqlite_open, pg_db, inserted>>

\* ------------------------------------------------------------ ExecuteOne
\* str(e): the text of the exception.  asyncpg reports command_timeout (set
\* from config.timeout by create_pool) as asyncio.TimeoutError(), which has
\* no text; every other exception of this model carries a message.
ExcStr(e) == IF e = "TimeoutError" THEN "" ELSE e

\* execute_query's except branch
Failure(n, stmt, e) ==
    [database_name |-> n, query |-> stmt, data |-> <<>>, columns |-> <<>>,
     row_count |-> 0, success |-> FALSE, error |-> ExcStr(e)]

\* execute_query's return inside the try: row_count=len(data), error left None
Success(n, stmt, data, columns) ==
    [database_name |-> n, query |-> stmt, data |-> data, columns |-> columns,
     row_count |-> Len(data), success |-> TRUE, error |-> None]

Rows(v) == [i \in 1..v |-> [name |-> "Hammer"]]

\* The engine running a statement on a database holding v (-1: no table):
\* exc the error it raises, data the rows fetched, described whether the
\* cursor has a description, db the database as the statement leaves it.  A
\* catalog query lists the table whose name matches the search term; COLUMNS
\* is the query on information_schema.columns, TABLES the one on sqlite_master
\* and PRAGMA is table_info of the table.
Run(stmt, v) ==
    CASE stmt = "CREATE" ->
            IF v = -1 THEN [exc |-> "", data |-> <<>>, described |-> FALSE, db |-> 0]
            ELSE [exc |-> "QueryFailure", data |-> <<>>, described |-> FALSE, db |-> v]
      [] stmt = "INSERT" ->
            IF v = -1 THEN [exc |-> "QueryFailure", data |-> <<>>, described |-> FALSE, db |-> v]
            ELSE [exc |-> "", data |-> <<>>, described |-> FALSE, db |-> v + 1]
      [] stmt \in SearchStatements ->
            [exc |-> "", described |-> TRUE, db |-> v,
             data |-> IF v = -1 THEN <<>> ELSE <<[table_name |-> "items"]>>]
      [] stmt = "COLUMNS" ->
            [exc |-> "", described |-> TRUE, db |-> v,
             data |-> IF v = -1 THEN <<>>
                      ELSE <<[table_name |-> "items", column_name |-> "name"]>>]
      [] stmt = "TABLES" ->
            [exc |-> "", described |-> TRUE, db |-> v,
             data |-> IF v = -1 THEN <<>> ELSE <<[name |-> "items"]>>]
      [] stmt = "PRAGMA" ->
            [exc |-> "", described |-> TRUE, db |-> v,
             data |-> IF v = -1 THEN <<>> ELSE <<[name |-> "name"]>>]
      [] OTHER ->
            IF v = -1 THEN [exc |-> "QueryFailure", data |-> <<>>, described |-> FALSE, db |-> v]
            ELSE [exc |-> "", data |-> Rows(v), described |-> TRUE, db |-> v]

\* The params argument that goes with a statement: a dict in insertion order,
\* <<>> for None.
ParamsOf(stmt) ==
    CASE stmt \in BoundStatements -> <<<<"category", "tools">>>>
      [] stmt \in SearchStatements ->
            <<<<"table_pattern", "%">>, <<"search_term", "%items%">>>>
      [] OTHER -> <<>>

Placeholders(stmt) ==
    CASE stmt = "SELECT :category" -> "named"
      [] stmt = "SELECT ?" -> "qmark"
      [] stmt = "SELECT $1" -> "dollar"
      [] stmt = "SEARCH ?" -> "qmark"
      [] stmt = "SEARCH %s" -> "format"
      [] OTHER -> "none"

\* How the driver binds the arguments execute_query hands it; the result is
\* the exception raised, "" when the statement can run.
\* sqlite3 gets `params or {}`, always a dict: it binds :name by key and
\* rejects a dict for a `?` (ProgrammingError: Binding 1 has no name, but you
\* supplied a dictionary), and `$1` is a name the dict does not have.
\* asyncpg gets *params.values() (nothing when params is empty): $n binds by
\* position, `:name` and `?` are syntax errors on the server, and arguments
\* for a statement without $n are refused.  `%s` is no placeholder of either
\* driver: the engine meets it as a syntax error.
BindError(type, style, params) ==
    IF type = "sqlite"
    THEN CASE style = "named" ->
                IF \E i \in DOMAIN params : params[i][1] = "category" THEN ""
                ELSE "ProgrammingError"
           [] style = "qmark" -> "ProgrammingError"
           [] style = "dollar" -> "ProgrammingError"
           [] style = "format" -> "OperationalError"
           [] OTHER -> ""
    ELSE CASE style = "named" -> "PostgresSyntaxError"
           [] style = "qmark" -> "PostgresSyntaxError"
           [] style = "format" -> "PostgresSyntaxError"
           [] style = "dollar" -> IF Len(params) = 1 THEN "" ELSE "InterfaceError"
           [] OTHER -> IF params = <<>> THEN "" ELSE "InterfaceError"

\* conn.execute(query, params or {}) / conn.fetch(query, *params.values())
Execute(type, stmt, v) ==
    LET e == BindError(type, Placeholders(stmt), ParamsOf(stmt)) IN
    IF e # "" THEN [exc |-> e, data |-> <<>>, described |-> FALSE, db |-> v]
    ELSE Run(stmt, v)

\* conn.close() in get_connection's finally, no commit before it: sqlite3
\* opened a transaction before the INSERT and closing rolls it back; DDL ran
\* outside a transaction and stays.
sqlite_close(stmt, before, after) == IF stmt = "INSERT" THEN before ELSE after

\* A lookup that goes by the stored handle instead of the config.
RegisteredByHandle(cfg, conns, n) == n \in conns \/ n \in Keys(cfg)

\* get_connection: if database_name not in self.configs
Registered(cfg, conns, n) == n \in Keys(cfg)

\* open: the sqlite3 connections the stretch opened and has not closed
Outcome(kind, qr, sdb, ins, conn, drv, pool) ==
    [kind |-> kind, qr |-> qr, sdb |-> sdb, ins |-> ins, conn |-> conn, drv |-> drv,
     pool |-> pool, open |-> 0]

\* conn = sqlite3.connect(config.database)
sqlite3_connect(o) == [o EXCEPT !.open = @ + 1]

\* finally: conn.close()
conn_close(o) == [o EXCEPT !.open = @ - 1]

\* execute_query up to its first suspension: the outcomes are results (the
\* call is over) or a suspension in pool.acquire().  sdb are the SQLite
\* files, ins the history of successful SQLite INSERTs.
execute_query(n, stmt, cfg, conns, cpools, ps, sdb, ins) ==
    IF ~Registered(cfg, conns, n)
    THEN {Outcome("result", Failure(n, stmt, "NotFound"), sdb, ins, FALSE, "none", 0)}
    ELSE IF n \notin Keys(cfg)
    THEN {Outcome("result", Failure(n, stmt, "KeyError"), sdb, ins, FALSE, "none", 0)}
    ELSE IF Get(cfg, n).type = "postgresql"
    THEN IF n \notin DOMAIN cpools
         THEN {Outcome("result", Failure(n, stmt, "KeyError"), sdb, ins, FALSE, "none", 0)}
         ELSE IF ps[cpools[n]].state # "open"
         THEN {Outcome("result", Failure(n, stmt, "InterfaceError"), sdb, ins, FALSE,
                       "none", 0)}
         ELSE {Outcome("suspend", NoQR, sdb, ins, FALSE, "none", cpools[n])}
    ELSE IF Get(cfg, n).type = "sqlite"
    THEN LET r == Execute("sqlite", stmt, sdb[n]) IN
         {Outcome("result", Failure(n, stmt, "ConnectionFailure"), sdb, ins, FALSE,
                  "ConnectionFailure", 0),
          conn_close(sqlite3_connect(
            IF r.exc # ""
            THEN Outcome("result", Failure(n, stmt, r.exc), sdb, ins, TRUE, "ok", 0)
            ELSE Outcome("result",
                         Success(n, stmt, r.data, IF r.described THEN <<"name">> ELSE <<>>),
                         [sdb EXCEPT ![n] = sqlite_close(stmt, sdb[n], r.db)],
                         [ins EXCEPT ![n] = IF stmt = "INSERT" THEN @ + 1 ELSE @],
                         TRUE, "ok", 0)))}
    ELSE {Outcome("result", Failure(n, stmt, "Unsupported"), sdb, ins, FALSE, "none", 0)}

\* ------------------------------------------------------------ ExecuteAll
\* A fan-out that keeps only the backends that answered.
StoreSuccessOnly(results, n, qr) == IF qr.success THEN (n :> qr) @@ results ELSE results

\* results[db_name] = result
StoreResult(results, n, qr) == (n :> qr) @@ results

\* A dict keeps its keys in the order of their first insertion.
FirstKey(first, n) == IF first = "" THEN n ELSE first

Min(S) == CHOOSE x \in S : \A y \in S : x <= y

\* The for loop of execute_query_all_databases from one suspension to the
\* next: next() of the dict iterator raises RuntimeError when the dict's size
\* differs from the size at iter() or when it finds more entries than that
\* size; an inactive config is skipped; a backend whose query needs no
\* suspension is stored at once.  st = [l: the locals, sdb, ins, open].
RECURSIVE AllLoop(_, _, _, _, _, _)
AllLoop(st, stmt, cfg, conns, cpools, ps) ==
    LET later == {i \in Live(cfg) : i > st.l.pos} IN
    IF Cardinality(Live(cfg)) # st.l.used THEN {[kind |-> "raise", st |-> st]}
    ELSE IF later = {} THEN {[kind |-> "return", st |-> st]}
    ELSE IF st.l.len = 0 THEN {[kind |-> "raise", st |-> st]}
    ELSE LET i == Min(later)
             e == cfg[i]
             l1 == [st.l EXCEPT !.pos = i, !.len = @ - 1]
         IN  IF ~e.is_active
             THEN AllLoop([st EXCEPT !.l = l1], stmt, cfg, conns, cpools, ps)
             ELSE UNION {
                    IF o.kind = "suspend"
                    THEN {[kind |-> "suspend",
                           st |-> [st EXCEPT !.l = [l1 EXCEPT !.cur = e.name,
                                                              !.pool = o.pool]]]}
                    ELSE AllLoop([l |-> [l1 EXCEPT
                                           !.results = StoreResult(@, e.name, o.qr),
                                           !.first = FirstKey(@, e.name),
                                           !.drv = (e.name :> o.drv) @@ @,
                                           !.conn = @ \/ o.conn],
                                  sdb |-> o.sdb, ins |-> o.ins,
                                  open |-> st.open + o.open],
                                 stmt, cfg, conns, cpools, ps)
                    : o \in execute_query(e.name, stmt, cfg, conns, cpools, ps,
                                          st.sdb, st.ins)}

\* An execute_query whose except lets the KeyError of a vanished config out.
QueryResponseUnlessKeyError(qr) ==
    IF qr.error = "KeyError"
    THEN [NoRet EXCEPT !.kind = "raised", !.cause = "KeyError", !.status = 500]
    ELSE [NoRet EXCEPT !.kind = "value", !.ok = qr.success, !.qr = qr, !.status = 200]

\* execute_query returns its QueryResult (the endpoint answers 200 with it)
QueryResponse(qr) == [NoRet EXCEPT !.kind = "value", !.ok = qr.success, !.qr = qr,
                                    !.status = 200]

AllResponse(kind, results) ==
    IF kind = "return"
    THEN [NoRet EXCEPT !.kind = "value", !.ok = TRUE, !.results = results, !.status = 200]
    ELSE [NoRet EXCEPT !.kind = "raised", !.cause = "RuntimeError", !.status = 500]

\* The /query endpoint without a database_name: next(iter(results.values())),
\* the value under the first key, is returned; for an empty dict the
\* HTTPException(400) is raised inside the try and `except Exception` makes it
\* a 500, as it does with an exception of the loop.
FirstResponse(kind, results, first) ==
    IF kind # "return"
    THEN [NoRet EXCEPT !.kind = "raised", !.cause = "RuntimeError", !.status = 500]
    ELSE IF first = ""
    THEN [NoRet EXCEPT !.kind = "raised", !.cause = "No databases configured",
                       !.status = 500]
    ELSE [NoRet EXCEPT !.kind = "value", !.ok = results[first].success,
                       !.qr = results[first], !.status = 200]

\* What the endpoint of a fan-out call answers when the loop is over.
FanOutResponse(cl, kind, l) ==
    IF cl.op = "query" THEN FirstResponse(kind, l.results, l.first)
    ELSE AllResponse(kind, l.results)

\* Rows an INSERT may still add to n's table: the running INSERTs count.
Inserting(n) ==
    {u \in Tasks : /\ pc[u] # "idle"
                   /\ call[u].stmt = "INSERT"
                   /\ (call[u].op \in {"all", "query"} \/ call[u].name = n)}

InsertRoom(n) ==
    /\ inserted[n] + Cardinality(Inserting(n)) < MaxRows
    /\ pg_db[n] + Cardinality(Inserting(n)) < MaxRows

\* The loop of task t goes on from st until it suspends, returns or raises.
Loop(t, cl, st) ==
    \E o \in AllLoop(st, cl.stmt, configs', connections, connection_pools', pools') :
        /\ sqlite_db' = o.st.sdb
        /\ sqlite_open' = o.st.open
        /\ inserted' = o.st.ins
        /\ IF o.kind = "suspend"
           THEN Suspend(t, cl, "ex_acquire", o.st.l)
           ELSE Return(t, cl, o.st.l, FanOutResponse(cl, o.kind, o.st.l))

\* execute_query(database_name, query, params) up to its first suspension,
\* the query being one of S.
ExecuteOne(t, S) ==
    \E n \in Names, stmt \in S :
        LET cl == [NoCall EXCEPT !.op = "one", !.name = n, !.stmt = stmt]
            lc == [NoLoc EXCEPT !.snap = Snapshot, !.cur = n]
        IN  /\ Ready(t)
            /\ t \in Queriers
            /\ stmt = "INSERT" => InsertRoom(n)
            /\ \E o \in execute_query(n, stmt, configs, connections, connection_pools,
                                      pools, sqlite_db, inserted) :
                /\ sqlite_db' = o.sdb
                /\ sqlite_open' = sqlite_open + o.open
                /\ inserted' = o.ins
                /\ IF o.kind = "suspend"
                   THEN Suspend(t, cl, "ex_acquire", [lc EXCEPT !.pool = o.pool])
                   ELSE Return(t, cl, [lc EXCEPT !.conn = o.conn, !.drv = n :> o.drv],
                               QueryResponse(o.qr))
            /\ UNCHANGED <<cache, configs, connections, connection_pools, lock, pools,
                           ASYNCPG_AVAILABLE, AIOMYSQL_AVAILABLE, pg_db, removedOk>>

\* A query without parameters.
ExecStart(t) == ExecuteOne(t, Statements)

\* A query with a parameter map.
ExecParams(t) == ExecuteOne(t, BoundStatements)

\* execute_query_all_databases up to its first suspension, called by the
\* endpoint op
FanOut(t, op) ==
    \E stmt \in Statements :
        LET cl == [NoCall EXCEPT !.op = op, !.stmt = stmt]
            lc == [NoLoc EXCEPT !.snap = Snapshot,
                                !.used = Cardinality(Live(configs)),
                                !.len = Cardinality(Live(configs)),
                                !.atStart = ActiveNames(configs)]
        IN  /\ Ready(t)
            /\ t \in Queriers
            /\ stmt = "INSERT" => \A n \in Names : InsertRoom(n)
            /\ UNCHANGED <<cache, configs, connections, connection_pools, lock, pools,
                           ASYNCPG_AVAILABLE, AIOMYSQL_AVAILABLE, pg_db, removedOk>>
            /\ Loop(t, cl, [l |-> lc, sdb |-> sqlite_db, ins |-> inserted,
                             open |-> sqlite_open])

\* POST /query/all
AllStart(t) == FanOut(t, "all")

\* POST /query with no database_name
QueryStart(t) == FanOut(t, "query")

\* ---------------------------------------------------------------- Search
\* The catalog query search_across_databases has for an engine.
SearchQuery(type) == IF type = "postgresql" THEN "SEARCH %s" ELSE "SEARCH ?"

\* The first catalog query get_database_schema has for an engine.
SchemaQuery(type) == IF type = "postgresql" THEN "COLUMNS" ELSE "TABLES"

\* The statement a call sends to a backend of an engine.
Query(c, type) ==
    CASE c.op = "search" -> SearchQuery(type)
      [] c.op \in {"schema", "schemas"} -> SchemaQuery(type)
      [] OTHER -> c.stmt

\* results[db_name] = result.data if result.success else []
StoreMatches(results, n, result) ==
    (n :> (IF result.success THEN result.data ELSE <<>>)) @@ results

\* result = await self.execute_query(...) has returned qr for backend n
AfterSearch(l, n, qr) ==
    [l EXCEPT !.result = qr,
              !.results = StoreMatches(@, n, qr),
              !.failed = IF qr.success THEN @ ELSE @ \cup {n},
              !.origin = (n :> qr.database_name) @@ @]

\* A backend whose engine has no branch: `result` is read as the previous
\* backend left it; while it is unbound the read raises UnboundLocalError and
\* the except stores [].
NoSearchBranch(l, n) ==
    IF l.result = NoQR
    THEN [l EXCEPT !.results = (n :> <<>>) @@ @, !.failed = @ \cup {n},
                   !.origin = (n :> n) @@ @]
    ELSE [l EXCEPT !.results = StoreMatches(@, n, l.result),
                   !.origin = (n :> l.result.database_name) @@ @]

\* The for loop of search_across_databases from one suspension to the next;
\* the dict iterator is that of AllLoop.
RECURSIVE SearchLoop(_, _, _, _, _)
SearchLoop(st, cfg, conns, cpools, ps) ==
    LET later == {i \in Live(cfg) : i > st.l.pos} IN
    IF Cardinality(Live(cfg)) # st.l.used THEN {[kind |-> "raise", st |-> st]}
    ELSE IF later = {} THEN {[kind |-> "return", st |-> st]}
    ELSE IF st.l.len = 0 THEN {[kind |-> "raise", st |-> st]}
    ELSE LET i == Min(later)
             e == cfg[i]
             l1 == [st.l EXCEPT !.pos = i, !.len = @ - 1]
         IN  IF ~e.is_active
             THEN SearchLoop([st EXCEPT !.l = l1], cfg, conns, cpools, ps)
             ELSE IF e.type \notin {"postgresql", "sqlite"}
             THEN SearchLoop([st EXCEPT !.l = NoSearchBranch(l1, e.name)],
                             cfg, conns, cpools, ps)
             ELSE UNION {
                    IF o.kind = "suspend"
                    THEN {[kind |-> "suspend",
                           st |-> [st EXCEPT !.l = [l1 EXCEPT !.cur = e.name,
                                                              !.pool = o.pool]]]}
                    ELSE SearchLoop([l |-> [AfterSearch(l1, e.name, o.qr) EXCEPT
                                              !.drv = (e.name :> o.drv) @@ @,
                                              !.conn = @ \/ o.conn],
                                     sdb |-> o.sdb, ins |-> o.ins,
                                     open |-> st.open + o.open],
                                    cfg, conns, cpools, ps)
                    : o \in execute_query(e.name, SearchQuery(e.type), cfg, conns, cpools,
                                          ps, st.sdb, st.ins)}

\* The endpoint returns the map; an exception of the loop becomes a 500.
SearchResponse(kind, results) ==
    IF kind = "return"
    THEN [NoRet EXCEPT !.kind = "value", !.ok = TRUE, !.results = results, !.status = 200]
    ELSE [NoRet EXCEPT !.kind = "raised", !.cause = "RuntimeError", !.status = 500]

\* The search of task t goes on from st until it suspends, returns or raises.
SearchRun(t, cl, st) ==
    \E o \in SearchLoop(st, configs', connections, connection_pools', pools') :
        /\ sqlite_db' = o.st.sdb
        /\ sqlite_open' = o.st.open
        /\ inserted' = o.st.ins
        /\ IF o.kind = "suspend"
           THEN Suspend(t, cl, "ex_acquire", o.st.l)
           ELSE Return(t, cl, o.st.l, SearchResponse(o.kind, o.st.l.results))

\* search_across_databases(search_term) up to its first suspension
SearchStart(t) ==
    LET cl == [NoCall EXCEPT !.op = "search"]
        lc == [NoLoc EXCEPT !.snap = Snapshot,
                            !.used = Cardinality(Live(configs)),
                            !.len = Cardinality(Live(configs)),
                            !.atStart = ActiveNames(configs)]
    IN  /\ Ready(t)
        /\ t \in Queriers
        /\ UNCHANGED <<cache, configs, connections, connection_pools, lock, pools,
                       ASYNCPG_AVAILABLE, AIOMYSQL_AVAILABLE, pg_db, removedOk>>
        /\ SearchRun(t, cl, [l |-> lc, sdb |-> sqlite_db, ins |-> inserted,
                             open |-> sqlite_open])

\* ------------------------------------------------------------- GetSchema
\* The dict of the PostgreSQL branch: it has no 'error' key.
PgSchema(n, result) ==
    [database_name |-> n, type |-> "postgresql", tables |-> result.data,
     success |-> result.success]

\* The dict of the SQLite branch: 'success': True, whatever the queries
\* answered.
SqliteSchema(n, tables) ==
    [database_name |-> n, type |-> "sqlite", tables |-> tables, success |-> TRUE]

\* The dict of the except branch
SchemaError(n, e) ==
    [database_name |-> n, type |-> "unknown", tables |-> <<>>, success |-> FALSE,
     error |-> ExcStr(e)]

SchemaOutcome(kind, schema, o) ==
    [kind |-> kind, schema |-> schema, sdb |-> o.sdb, ins |-> o.ins, conn |-> o.conn,
     drv |-> o.drv, pool |-> o.pool, open |-> o.open]

\* for table in tables_result.data: one PRAGMA table_info per table, its
\* data appended whether or not the query succeeded.  acc is the outcome so
\* far, its schema field holding the tables collected.
RECURSIVE TableLoop(_, _, _, _, _, _, _)
TableLoop(rows, acc, n, cfg, conns, cpools, ps) ==
    IF rows = <<>> THEN {[acc EXCEPT !.schema = SqliteSchema(n, @)]}
    ELSE UNION {
           TableLoop(Tail(rows),
                     [acc EXCEPT !.schema = Append(@, [table_name |-> Head(rows).name,
                                                       columns |-> o.qr.data]),
                                 !.sdb = o.sdb, !.ins = o.ins,
                                 !.conn = @ \/ o.conn,
                                 !.drv = IF @ = "ok" THEN o.drv ELSE @,
                                 !.open = @ + o.open],
                     n, cfg, conns, cpools, ps)
           : o \in execute_query(n, "PRAGMA", cfg, conns, cpools, ps, acc.sdb, acc.ins)}

\* get_database_schema up to its first suspension.  A name that is not in
\* configs raises KeyError inside the try; an engine other than PostgreSQL
\* and SQLite matches no branch and the function ends without a return.  drv
\* is the first answer of the driver that was not ok.
get_database_schema(n, cfg, conns, cpools, ps, sdb, ins) ==
    LET none == Outcome("result", NoQR, sdb, ins, FALSE, "none", 0) IN
    IF n \notin Keys(cfg)
    THEN {SchemaOutcome("result", SchemaError(n, "KeyError"), none)}
    ELSE IF Get(cfg, n).type = "postgresql"
    THEN {IF o.kind = "suspend" THEN SchemaOutcome("suspend", PyNone, o)
          ELSE SchemaOutcome("result", PgSchema(n, o.qr), o)
          : o \in execute_query(n, "COLUMNS", cfg, conns, cpools, ps, sdb, ins)}
    ELSE IF Get(cfg, n).type = "sqlite"
    THEN UNION {TableLoop(o.qr.data, SchemaOutcome("result", <<>>, o), n, cfg, conns,
                          cpools, ps)
                : o \in execute_query(n, "TABLES", cfg, conns, cpools, ps, sdb, ins)}
    ELSE {SchemaOutcome("result", PyNone, none)}

\* The endpoint returns what get_database_schema returned; None does not pass
\* the validation against response_model=Dict[str, Any], a 500.
SchemaResponse(schema) ==
    [NoRet EXCEPT !.kind = "value", !.ok = (schema # PyNone), !.schema = schema,
                  !.status = IF schema = PyNone THEN 500 ELSE 200]

\* get_database_schema(database_name) up to its first suspension
SchemaStart(t) ==
    \E n \in Names :
        LET cl == [NoCall EXCEPT !.op = "schema", !.name = n]
            lc == [NoLoc EXCEPT !.snap = Snapshot, !.cur = n]
        IN  /\ Ready(t)
            /\ t \in Queriers
            /\ \E o \in get_database_schema(n, configs, connections, connection_pools,
                                             pools, sqlite_db, inserted) :
                /\ sqlite_db' = o.sdb
                /\ sqlite_open' = sqlite_open + o.open
                /\ inserted' = o.ins
                /\ IF o.kind = "suspend"
                   THEN Suspend(t, cl, "ex_acquire", [lc EXCEPT !.pool = o.pool])
                   ELSE Return(t, cl, [lc EXCEPT !.conn = o.conn, !.drv = n :> o.drv],
                               SchemaResponse(o.schema))
            /\ UNCHANGED <<cache, configs, connections, connection_pools, lock, pools,
                           ASYNCPG_AVAILABLE, AIOMYSQL_AVAILABLE, pg_db, removedOk>>

\* --------------------------------------------------------- GetAllSchemas
\* A map that has no entry for a backend without a description.
StoreSchemaUnlessNone(schemas, n, schema) ==
    IF schema = PyNone THEN schemas ELSE (n :> schema) @@ schemas

\* schemas[db_name] = schema
StoreSchema(schemas, n, schema) == (n :> schema) @@ schemas

\* The for loop of get_all_schemas from one suspension to the next; the dict
\* iterator is that of AllLoop.
RECURSIVE SchemasLoop(_, _, _, _, _)
SchemasLoop(st, cfg, conns, cpools, ps) ==
    LET later == {i \in Live(cfg) : i > st.l.pos} IN
    IF Cardinality(Live(cfg)) # st.l.used THEN {[kind |-> "raise", st |-> st]}
    ELSE IF later = {} THEN {[kind |-> "return", st |-> st]}
    ELSE IF st.l.len = 0 THEN {[kind |-> "raise", st |-> st]}
    ELSE LET i == Min(later)
             e == cfg[i]
             l1 == [st.l EXCEPT !.pos = i, !.len = @ - 1]
         IN  IF ~e.is_active
             THEN SchemasLoop([st EXCEPT !.l = l1], cfg, conns, cpools, ps)
             ELSE UNION {
                    IF o.kind = "suspend"
                    THEN {[kind |-> "suspend",
                           st |-> [st EXCEPT !.l = [l1 EXCEPT !.cur = e.name,
                                                              !.pool = o.pool]]]}
                    ELSE SchemasLoop([l |-> [l1 EXCEPT
                                               !.results = StoreSchema(@, e.name, o.schema),
                                               !.drv = (e.name :> o.drv) @@ @,
                                               !.conn = @ \/ o.conn],
                                      sdb |-> o.sdb, ins |-> o.ins,
                                      open |-> st.open + o.open],
                                     cfg, conns, cpools, ps)
                    : o \in get_database_schema(e.name, cfg, conns, cpools, ps,
                                                st.sdb, st.ins)}

\* The endpoint returns the map; an exception of the loop, and a None in the
\* map (response_model=Dict[str, Dict[str, Any]]), become a 500.
SchemasResponse(kind, schemas) ==
    IF kind = "return"
    THEN [NoRet EXCEPT !.kind = "value", !.ok = TRUE, !.results = schemas,
                       !.status = IF \E n \in DOMAIN schemas : schemas[n] = PyNone
                                  THEN 500 ELSE 200]
    ELSE [NoRet EXCEPT !.kind = "raised", !.cause = "RuntimeError", !.status = 500]

\* get_all_schemas of task t goes on from st until it suspends, returns or
\* raises.
SchemasRun(t, cl, st) ==
    \E o \in SchemasLoop(st, configs', connections, connection_pools', pools') :
        /\ sqlite_db' = o.st.sdb
        /\ sqlite_open' = o.st.open
        /\ inserted' = o.st.ins
        /\ IF o.kind = "suspend"
           THEN Suspend(t, cl, "ex_acquire", o.st.l)
           ELSE Return(t, cl, o.st.l, SchemasResponse(o.kind, o.st.l.results))

\* get_all_schemas() up to its first suspension
SchemasStart(t) ==
    LET cl == [NoCall EXCEPT !.op = "schemas"]
        lc == [NoLoc EXCEPT !.snap = Snapshot,
                            !.used = Cardinality(Live(configs)),
                            !.len = Cardinality(Live(configs)),
                            !.atStart = ActiveNames(configs)]
    IN  /\ Ready(t)
        /\ t \in Queriers
        /\ UNCHANGED <<cache, configs, connections, connection_pools, lock, pools,
                       ASYNCPG_AVAILABLE, AIOMYSQL_AVAILABLE, pg_db, removedOk>>
        /\ SchemasRun(t, cl, [l |-> lc, sdb |-> sqlite_db, ins |-> inserted,
                              open |-> sqlite_open])

\* The query of task t on backend loc[t].cur is over with result qr: ExecuteOne
\* returns it, GetSchema returns the dict made of it, the fan-outs store it
\* and go on with their loops.
Deliver(t, l, qr) ==
    CASE call[t].op = "one" ->
            /\ Return(t, call[t], l, QueryResponse(qr))
            /\ UNCHANGED <<sqlite_db, sqlite_open, inserted>>
      [] call[t].op = "schema" ->
            /\ Return(t, call[t], l, SchemaResponse(PgSchema(l.cur, qr)))
            /\ UNCHANGED <<sqlite_db, sqlite_open, inserted>>
      [] call[t].op = "schemas" ->
            SchemasRun(t, call[t],
                       [l |-> [l EXCEPT !.results = StoreSchema(@, l.cur, PgSchema(l.cur, qr))],
                        sdb |-> sqlite_db, ins |-> inserted, open |-> sqlite_open])
      [] call[t].op \in {"all", "query"} ->
            Loop(t, call[t], [l |-> [l EXCEPT !.results = StoreResult(@, l.cur, qr),
                                              !.first = FirstKey(@, l.cur)],
                              sdb |-> sqlite_db, ins |-> inserted, open |-> sqlite_open])
      [] OTHER ->
            SearchRun(t, call[t], [l |-> AfterSearch(l, l.cur, qr),
                                   sdb |-> sqlite_db, ins |-> inserted,
                                   open |-> sqlite_open])

\* `async with pool.acquire() as conn`: the pool hands a connection out
Checkout(ps, p) == [ps EXCEPT ![p].out = @ + 1]

\* A pool that takes a connection back only from a body that ended normally.
ReleaseOnReturn(ps, p, how) == IF how = "return" THEN [ps EXCEPT ![p].out = @ - 1] ELSE ps

\* Leaving the `async with` of get_connection: the connection goes back to the
\* pool however the body ended ("return", "raise" or "cancel").
Release(ps, p, how) == [ps EXCEPT ![p].out = @ - 1]

\* What the server may answer: a connection attempt succeeds or fails, a
\* statement also runs into command_timeout.
ConnectAnswers == {"ok", "ConnectionFailure"}

FetchAnswers == {"ok", "ConnectionFailure", "TimeoutError"}

\* `async with pool.acquire() as conn` resumes: the pool hands out a
\* connection or raises; with a connection, line 201 looks the config up
\* again and the PostgreSQL branch suspends in conn.fetch.
ExecAcquired(t) ==
    LET n == loc[t].cur
        p == loc[t].pool
    IN  /\ At(t, "ex_acquire")
        /\ UNCHANGED <<cache, configs, connections, connection_pools, lock, ASYNCPG_AVAILABLE,
                       AIOMYSQL_AVAILABLE, pg_db, removedOk>>
        /\ \E d \in ConnectAnswers :
            LET l == [loc[t] EXCEPT !.drv = (n :> d) @@ @] IN
            IF d # "ok"
            THEN /\ pools' = pools
                 /\ Deliver(t, l, Failure(n, Query(call[t], "postgresql"), d))
            ELSE IF n \notin Keys(configs)
            THEN /\ pools' = Release(Checkout(pools, p), p, "raise")
                 /\ Deliver(t, [l EXCEPT !.conn = TRUE],
                            Failure(n, Query(call[t], "postgresql"), "KeyError"))
            ELSE IF Get(configs, n).type # "postgresql"
            THEN /\ pools' = Release(Checkout(pools, p), p, "raise")
                 /\ Deliver(t, [l EXCEPT !.conn = TRUE],
                            Failure(n, Query(call[t], "postgresql"), "AttributeError"))
            ELSE /\ pools' = Checkout(pools, p)
                 /\ Suspend(t, call[t], "ex_fetch", [l EXCEPT !.conn = TRUE])
                 /\ UNCHANGED <<sqlite_db, sqlite_open, inserted>>

\* conn.fetch resumes with rows or an exception; the connection goes back to
\* the pool on the way out of the `async with`.  asyncpg runs a statement
\* outside a transaction block in autocommit.
ExecFetched(t) ==
    LET n == loc[t].cur
        p == loc[t].pool
        r == Execute("postgresql", Query(call[t], "postgresql"), pg_db[n])
    IN  /\ At(t, "ex_fetch")
        /\ UNCHANGED <<cache, configs, connections, connection_pools, lock, ASYNCPG_AVAILABLE,
                       AIOMYSQL_AVAILABLE, removedOk>>
        /\ \E d \in FetchAnswers :
            LET l == [loc[t] EXCEPT !.drv = (n :> d) @@ @] IN
            IF d # "ok"
            THEN /\ pg_db' = pg_db
                 /\ pools' = Release(pools, p, "raise")
                 /\ Deliver(t, l, Failure(n, Query(call[t], "postgresql"), d))
            ELSE IF r.exc # ""
            THEN /\ pg_db' = pg_db
                 /\ pools' = Release(pools, p, "raise")
                 /\ Deliver(t, l, Failure(n, Query(call[t], "postgresql"), r.exc))
            ELSE /\ pg_db' = [pg_db EXCEPT ![n] = r.db]
                 /\ pools' = Release(pools, p, "return")
                 /\ Deliver(t, l, Success(n, Query(call[t], "postgresql"), r.data,
                                          IF r.data # <<>> THEN <<"name">> ELSE <<>>))

\* The caller cancels the request of task t while it is suspended in a query:
\* CancelledError is raised at the await.  It is no Exception, so neither
\* execute_query nor the loop of a fan-out catches it; the `async with` of
\* get_connection still runs its exit.  A statement that was sent may have
\* run on the server.
CancelResponse == [NoRet EXCEPT !.kind = "cancelled", !.cause = "CancelledError"]

Cancel(t) ==
    LET n == loc[t].cur
        p == loc[t].pool
        r == Execute("postgresql", Query(call[t], "postgresql"), pg_db[n])
    IN  /\ Sent
        /\ pc[t] \in {"ex_acquire", "ex_fetch"}
        /\ IF pc[t] = "ex_fetch"
           THEN /\ pools' = Release(pools, p, "cancel")
                /\ \E ran \in BOOLEAN :
                    pg_db' = IF ran /\ r.exc = "" THEN [pg_db EXCEPT ![n] = r.db] ELSE pg_db
           ELSE UNCHANGED <<pools, pg_db>>
        /\ Return(t, call[t], loc[t], CancelResponse)
        /\ UNCHANGED <<cache, configs, connections, connection_pools, lock, ASYNCPG_AVAILABLE,
                       AIOMYSQL_AVAILABLE, sqlite_db, sqlite_open, inserted, removedOk>>

\* ------------------------------------------------------- close_all_connections
\* for db_name, pool in self.connection_pools.items(): the loop runs on to the
\* first pool whose close() has to wait (cur, "" when the items are used up);
\* close() of a closed pool returns at once.  Pools are stored in the order
\* they were created.
RECURSIVE CloseLoop(_, _, _)
CloseLoop(l, cpools, ps) ==
    LET todo == DOMAIN cpools \ l.seen IN
    IF todo = {}
    THEN [l EXCEPT !.cur = "", !.pool = 0]
    ELSE LET n == CHOOSE m \in todo : \A k \in todo : cpools[m] <= cpools[k] IN
         IF ps[cpools[n]].state = "closed"
         THEN CloseLoop([l EXCEPT !.seen = @ \cup {n}], cpools, ps)
         ELSE [l EXCEPT !.seen = @ \cup {n}, !.cur = n, !.pool = cpools[n]]

CloseResult(raised) ==
    [NoRet EXCEPT !.kind = IF raised = "" THEN "value" ELSE "raised",
                  !.ok = (raised = ""), !.cause = raised]

\* The loop from the place l on: it suspends in the next close(), or it is
\* over and both handle maps are cleared.
CloseFrom(t, cl, l, ps) ==
    LET nl == CloseLoop(l, connection_pools, ps) IN
    IF nl.cur = ""
    THEN /\ connection_pools' = <<>>
         /\ connections' = {}
         /\ pools' = ps
         /\ Return(t, cl, nl, CloseResult(""))
    ELSE /\ pools' = SetPool(ps, nl.pool, "closing")
         /\ Suspend(t, cl, "ca_close", nl)
         /\ UNCHANGED <<connection_pools, connections>>

\* close_all_connections up to its first `await pool.close()`.
CloseAllStart(t) ==
    /\ Ready(t)
    /\ CloseFrom(t, [NoCall EXCEPT !.op = "close_all"],
                 [NoLoc EXCEPT !.snap = Snapshot,
                               !.len = Cardinality(DOMAIN connection_pools)],
                 pools)
    /\ UNCHANGED <<cache, configs, lock, ASYNCPG_AVAILABLE, AIOMYSQL_AVAILABLE, sqlite_db,
                   sqlite_open, pg_db, inserted, removedOk>>

\* pool.close() finished (an exception of close() is logged and the loop goes
\* on); the iterator raises RuntimeError when the dict has changed its size
\* meanwhile, which nothing catches.
CloseAllDone(t) ==
    /\ At(t, "ca_close")
    /\ pools[loc[t].pool].out = 0
    /\ IF Cardinality(DOMAIN connection_pools) # loc[t].len
       THEN /\ pools' = SetPool(pools, loc[t].pool, "closed")
            /\ Return(t, call[t], loc[t], CloseResult("RuntimeError"))
            /\ UNCHANGED <<connection_pools, connections>>
       ELSE CloseFrom(t, call[t], loc[t], SetPool(pools, loc[t].pool, "closed"))
    /\ UNCHANGED <<cache, configs, lock, ASYNCPG_AVAILABLE, AIOMYSQL_AVAILABLE, sqlite_db,
                   sqlite_open, pg_db, inserted, removedOk>>

\* ---------------------------------------------------------- InMemoryCache
Has(od, k) == \E i \in DOMAIN od : od[i].key = k

\* del self._cache[key]
Without(od, k) == SelectSeq(od, LAMBDA e : e.key # k)

\* _evict_expired: every entry whose expires_at has passed is deleted
evict_expired(od) == SelectSeq(od, LAMBDA e : ~e.expired)

\* _evict_lru: if self._cache: self._cache.popitem(last=False)
evict_lru(od) == IF od # <<>> THEN Tail(od) ELSE od

\* set(key, value) up to its while loop: an entry under the key is deleted.
CacheSet ==
    \E k \in CacheKeys :
        /\ cache.pc = "idle"
        /\ cache' = [cache EXCEPT !.od = Without(@, k), !.pc = "set", !.key = k,
                                  !.out = None]
        /\ UNCHANGED managerVars

\* The test of `while len(self._cache) >= self.max_size`: into the body, or
\* the entry is stored as the most recent one and set returns True.
CacheSetTest ==
    /\ cache.pc = "set"
    /\ cache' = IF Len(cache.od) >= cache.max_size
                THEN [cache EXCEPT !.pc = "evict"]
                ELSE [cache EXCEPT !.od = Append(@, [key |-> cache.key, expired |-> FALSE]),
                                   !.pc = "idle", !.key = "", !.out = "True"]
    /\ UNCHANGED managerVars

\* The body of the loop, self._evict_lru(), and back to the test.
CacheEvict ==
    /\ cache.pc = "evict"
    /\ cache' = [cache EXCEPT !.od = evict_lru(@), !.pc = "set"]
    /\ UNCHANGED managerVars

\* get(key): expired entries go, a missing key gives None, a hit moves the
\* entry to the end.
CacheGet ==
    \E k \in CacheKeys :
        LET od == evict_expired(cache.od) IN
        /\ cache.pc = "idle"
        /\ cache' = IF Has(od, k)
                    THEN [cache EXCEPT !.od = Append(Without(od, k),
                                                     [key |-> k, expired |-> FALSE]),
                                       !.out = "value"]
                    ELSE [cache EXCEPT !.od = od, !.out = None]
        /\ UNCHANGED managerVars

\* delete(key)
CacheDelete ==
    \E k \in CacheKeys :
        /\ cache.pc = "idle"
        /\ cache' = [cache EXCEPT !.od = Without(@, k),
                                  !.out = IF Has(cache.od, k) THEN "True" ELSE "False"]
        /\ UNCHANGED managerVars

\* clear()
CacheClear ==
    /\ cache.pc = "idle"
    /\ cache' = [cache EXCEPT !.od = <<>>, !.out = "True"]
    /\ UNCHANGED managerVars

\* time.time() passes the expires_at of an entry.
CacheExpire ==
    \E i \in DOMAIN cache.od :
        /\ ~cache.od[i].expired
        /\ cache' = [cache EXCEPT !.od[i].expired = TRUE]
        /\ UNCHANGED managerVars

\* The endpoint returns: the response leaves the process.
Respond ==
    /\ ~Sent
    /\ ret' = NoRet
    /\ UNCHANGED <<cache, configs, connections, connection_pools, lock, pools, ASYNCPG_AVAILABLE,
                   AIOMYSQL_AVAILABLE, sqlite_db, sqlite_open, pg_db, pc, call, loc, inserted,
                   removedOk>>

NextOf(T) ==
    \/ Respond
    \/ \E t \in T :
        \/ AddStart(t)
        \/ AddPoolDone(t)
        \/ RemoveStart(t)
        \/ RemoveCloseDone(t)
        \/ ExecStart(t)
        \/ AllStart(t)
        \/ ExecAcquired(t)
        \/ ExecFetched(t)

Next == NextOf(Tasks)

Spec == Init /\ [][Next]_vars

\* One request at a time.
NextSeq == NextOf({"t1"})

SpecSeq == Init /\ [][NextSeq]_vars

\* The registry requests alone.
NextReg ==
    \/ Respond
    \/ \E t \in Tasks :
        \/ AddStart(t)
        \/ AddPoolDone(t)
        \/ RemoveStart(t)
        \/ RemoveCloseDone(t)

SpecReg == Init /\ [][NextReg]_vars

\* One caller's single-database queries beside another caller's registry
\* requests.
NextInFlight ==
    \/ Respond
    \/ ExecStart("t1")
    \/ ExecAcquired("t1")
    \/ ExecFetched("t1")
    \/ AddStart("t2")
    \/ AddPoolDone("t2")
    \/ RemoveStart("t2")
    \/ RemoveCloseDone("t2")

SpecInFlight == Init /\ [][NextInFlight]_vars

\* One caller that also sends queries with a parameter map.
NextBind == NextSeq \/ ExecParams("t1")

SpecBind == Init /\ [][NextBind]_vars

\* One caller that also searches.
NextSearch == NextSeq \/ SearchStart("t1")

SpecSearch == Init /\ [][NextSearch]_vars

\* One caller, who may cancel the query or search it waits for.
NextCancel == NextSearch \/ Cancel("t1")

SpecCancel == Init /\ [][NextCancel]_vars

\* One caller, who also sends queries without a database name.
NextQuery == NextSeq \/ QueryStart("t1")

SpecQuery == Init /\ [][NextQuery]_vars

\* One caller's registry requests, single-database queries and schema
\* requests.
NextSchema ==
    \/ Respond
    \/ AddStart("t1")
    \/ AddPoolDone("t1")
    \/ RemoveStart("t1")
    \/ RemoveCloseDone("t1")
    \/ ExecStart("t1")
    \/ ExecAcquired("t1")
    \/ ExecFetched("t1")
    \/ SchemaStart("t1")
    \/ SchemasStart("t1")

SpecSchema == Init /\ [][NextSchema]_vars

\* One caller's registry requests and close_all_connections.
NextClose ==
    \/ Respond
    \/ AddStart("t1")
    \/ AddPoolDone("t1")
    \/ RemoveStart("t1")
    \/ RemoveCloseDone("t1")
    \/ CloseAllStart("t1")
    \/ CloseAllDone("t1")

SpecClose == Init /\ [][NextClose]_vars

\* The cache alone, built with any max_size from 0 on; a thread that is in
\* set's loop keeps running.
InitCache ==
    /\ ManagerInit
    /\ ASYNCPG_AVAILABLE
    /\ AIOMYSQL_AVAILABLE
    /\ \E m \in 0..MaxSize : cache = InMemoryCache(m)

NextCache ==
    \/ CacheSet
    \/ CacheSetTest
    \/ CacheEvict
    \/ CacheGet
    \/ CacheDelete
    \/ CacheClear
    \/ CacheExpire

SpecCache == InitCache /\ [][NextCache]_vars /\ WF_vars(CacheSetTest \/ CacheEvict)

\* ================================================================ claims
Returned(o) == ret.kind # "none" /\ ret.call.op = o

Before == ret.loc.snap

\* C1: an AddDatabase that reports failure because the connection or pool
\* setup raised leaves no entry for the name: List, the handle maps and the
\* pools are what they were before the call, and the name is no duplicate.
C1_AddFailFast ==
    (Returned("add") /\ ret.cause = "SetupRaised") =>
        /\ get_database_list(configs) = get_database_list(Before.configs)
        /\ connections = Before.connections
        /\ connection_pools = Before.connection_pools
        /\ ~IsDuplicate(configs, ret.call.name)

\* C2: ExecuteAll never raises and returns exactly one entry per backend that
\* was active when the call started.
C2_ExecuteAllOneEntryPerActive ==
    Returned("all") =>
        /\ ret.kind = "value"
        /\ DOMAIN ret.results = ret.loc.atStart

\* C3: in an ExecuteAll over the active backends of which exactly one is
\* unreachable or rejects the statement, every active backend has an entry,
\* the failing one's entry is a failure with an error, and every other entry
\* is a success with the rows of that backend's own database.
TypeOf(n) == Get(configs, n).type

Answer(n) == IF n \in DOMAIN ret.loc.drv THEN ret.loc.drv[n] ELSE "none"

DbBefore(n) == IF TypeOf(n) = "sqlite" THEN Before.sqlite_db[n] ELSE Before.pg_db[n]

\* The backend cannot serve the statement of the returned call.
Fails(n) ==
    \/ TypeOf(n) \notin {"sqlite", "postgresql"}
    \/ TypeOf(n) = "postgresql" /\ n \notin DOMAIN connection_pools
    \/ TypeOf(n) = "postgresql" /\ n \in DOMAIN connection_pools
                                /\ pools[connection_pools[n]].state # "open"
    \/ Answer(n) # "ok"
    \/ Run(ret.call.stmt, DbBefore(n)).exc # ""

FailingBackends == {n \in ActiveNames(configs) : Fails(n)}

C3_PartialFailureIsolated ==
    (Returned("all") /\ Cardinality(FailingBackends) = 1) =>
        /\ ret.kind = "value"
        /\ DOMAIN ret.results = ActiveNames(configs)
        /\ \A n \in ActiveNames(configs) :
            LET q == ret.results[n] IN
            IF Fails(n)
            THEN ~q.success /\ q.error # None /\ q.data = <<>> /\ q.row_count = 0
            ELSE /\ q.success
                 /\ q.data = Run(ret.call.stmt, DbBefore(n)).data
                 /\ q.row_count = Len(q.data)

C3_Witness ==
    /\ Returned("all")
    /\ Cardinality(ActiveNames(configs)) = 2
    /\ Cardinality(FailingBackends) = 1
    /\ \E n \in ActiveNames(configs) : ret.results[n].success /\ ret.results[n].row_count = 1

\* C4: on an SQLite backend a SELECT that follows successful INSERTs returns
\* the inserted rows: as many rows as INSERTs reported success, each carrying
\* the inserted name.
C4_WriteThenRead ==
    (/\ Returned("one")
     /\ ret.call.stmt = "SELECT"
     /\ ret.call.name \in Keys(configs)
     /\ TypeOf(ret.call.name) = "sqlite"
     /\ ret.qr.success) =>
        /\ ret.qr.row_count = inserted[ret.call.name]
        /\ ret.qr.data = Rows(inserted[ret.call.name])

\* C5: every QueryResult of ExecuteOne and ExecuteAll is well formed: a
\* failure has no rows, no columns, row_count 0 and a non-empty error; a
\* success has no error.
WellFormed(q) ==
    /\ ~q.success => /\ q.data = <<>>
                     /\ q.columns = <<>>
                     /\ q.row_count = 0
                     /\ q.error \notin {None, ""}
    /\ q.success => q.error = None

C5_QueryResultInvariant ==
    /\ (Returned("one") /\ ret.kind = "value") => WellFormed(ret.qr)
    /\ (Returned("all") /\ ret.kind = "value") =>
            \A n \in DOMAIN ret.results : WellFormed(ret.results[n])

\* C6: ExecuteOne on a name that is not registered fails as a call (NotFound
\* raised to the caller, no QueryResult) and acquires no connection.
C6_UnregisteredRaisesNotFound ==
    (Returned("one") /\ ret.call.name \notin Keys(Before.configs)) =>
        /\ ret.kind = "raised"
        /\ ret.cause = "NotFound"
        /\ ~ret.loc.conn

\* C7: AddDatabase with a name that is registered fails with DuplicateName
\* and leaves the configs, the handle maps and the pools as they were.
C7_DuplicateRejected ==
    (Returned("add") /\ ret.call.name \in Keys(Before.configs)) =>
        /\ ~ret.ok
        /\ ret.cause = "DuplicateName"
        /\ configs = Before.configs
        /\ connections = Before.connections
        /\ connection_pools = Before.connection_pools
        /\ pools = Before.pools
        /\ get_database_list(configs) = get_database_list(Before.configs)

C7_Witness ==
    /\ Returned("add")
    /\ ret.cause = "DuplicateName"
    /\ Get(configs, ret.call.name) # ret.call.config
    /\ ret.call.name \in DOMAIN connection_pools

\* C8: once RemoveDatabase(name) has returned ok and until the name is
\* registered again, the name is not in the configs and every ExecuteOne on it
\* is a NotFound failure that acquired no connection.
C8_QueryAfterRemoveNotFound ==
    /\ \A n \in removedOk : n \notin Keys(configs)
    /\ (Returned("one") /\ ret.call.name \in Before.removedOk) =>
            /\ ret.qr = Failure(ret.call.name, ret.call.stmt, "NotFound")
            /\ ~ret.loc.conn

C8_Witness ==
    /\ Returned("one")
    /\ ret.call.name \in Before.removedOk
    /\ ret.call.name \in connections
    /\ ret.qr.error = "NotFound"

\* C9: RemoveDatabase of a name that is not registered is answered not-found
\* (404) and leaves the registry unchanged.
C9_RemoveUnknownIs404 ==
    (Returned("remove") /\ ret.call.name \notin Keys(Before.configs)) =>
        /\ ret.status = 404
        /\ configs = Before.configs
        /\ connections = Before.connections
        /\ connection_pools = Before.connection_pools

\* C10: no name is absent from the configs while its pool is still stored and
\* not closed.
C10_PoolClosedBeforeConfigRemoved ==
    \A n \in DOMAIN connection_pools :
        pools[connection_pools[n]].state # "closed" => n \in Keys(configs)

\* C11: whatever way a query ends (result, exception of the driver,
\* cancellation), the connection it acquired is closed or back in its pool: a
\* pool has exactly the connections out that queries suspended in it hold, no
\* sqlite3 connection stays open, and a request that is over leaves every
\* pool with as many connections out as other requests still hold.
Holders(p) == {t \in Tasks : pc[t] = "ex_fetch" /\ loc[t].pool = p}

C11_ScopedRelease ==
    /\ sqlite_open = 0
    /\ \A p \in DOMAIN pools : pools[p].out = Cardinality(Holders(p))
    /\ (ret.kind # "none" /\ ret.call.op \in {"one", "all", "search"}) =>
            \A p \in DOMAIN Before.pools : pools[p].out = Before.pools[p].out

C11_Witness ==
    /\ ret.kind = "cancelled"
    /\ ret.loc.conn
    /\ ret.call.op = "all"
    /\ DOMAIN ret.loc.results # {}
    /\ pc["t1"] = "idle"

\* C12: mutations of the registry are serialized: while an AddDatabase is
\* between inserting its config and storing its pool, the config map and the
\* handle maps are as that AddDatabase left them.
C12_MutationsSerialized ==
    \A t \in Tasks :
        pc[t] = "add_pool" =>
            /\ configs = DictSet(loc[t].snap.configs, call[t].config)
            /\ connections = loc[t].snap.connections
            /\ connection_pools = loc[t].snap.connection_pools

\* C13: a fan-out runs its backends concurrently: while ExecuteAll waits for
\* the answer of one backend, the query on every other backend that was
\* active when the call started has been started (it is the one waited for or
\* has its result).
C13_FanOutConcurrent ==
    \A t \in Tasks :
        (call[t].op = "all" /\ pc[t] \in {"ex_acquire", "ex_fetch"}) =>
            \A n \in loc[t].atStart : n = loc[t].cur \/ n \in DOMAIN loc[t].results

\* C14: an ExecuteOne that is in flight while its backend is removed is not
\* dropped: as long as it is suspended the driver's answer can resume it, and
\* it returns, without raising, one QueryResult for its backend and statement
\* that is a success or carries an error.
InFlight(t) == Sent /\ call[t].op = "one" /\ pc[t] \in {"ex_acquire", "ex_fetch"}

C14_InFlightQueryAnswered ==
    /\ \A t \in Tasks : InFlight(t) => ENABLED (ExecAcquired(t) \/ ExecFetched(t))
    /\ Returned("one") =>
            /\ ret.kind = "value"
            /\ ret.qr.database_name = ret.call.name
            /\ ret.qr.query = ret.call.stmt
            /\ ret.qr.success \/ ret.qr.error # None
            /\ ret.qr.row_count = Len(ret.qr.data)

C14_Witness ==
    /\ Returned("one")
    /\ ret.call.name \in Keys(Before.configs)
    /\ ret.call.name \notin Keys(configs)
    /\ ret.loc.conn
    /\ ret.qr.error = "KeyError"

\* C15: a single-backend query does not block the process: an ExecuteOne that
\* ran its statement on a connection gave the event loop back while it waited
\* for the driver, so that other callers could run meanwhile - on every engine.
C15_QueryYieldsWhileWaiting ==
    (Returned("one") /\ ret.loc.conn) => ret.loc.yielded

\* C16: AddDatabase rejects every engine the query path has no connection
\* for: such a config is answered UnsupportedEngine, is not accepted and is
\* not in the registry when the call is over.
QueryableEngines == {"postgresql", "sqlite"}

C16_UnsupportedEngineRejected ==
    (Returned("add") /\ ret.cause # "DuplicateName"
                     /\ ret.call.config.type \notin QueryableEngines) =>
        /\ ~ret.ok
        /\ ret.cause = "UnsupportedEngine"
        /\ ret.call.name \notin Keys(configs)

\* C17: a successful ExecuteOne of a statement that does not begin with
\* SELECT has no rows and no columns and reports as row_count the number of
\* rows the statement affected: one for an INSERT of one row, none for a
\* CREATE TABLE.
RowsAffected(stmt) == IF stmt = "INSERT" THEN 1 ELSE 0

C17_NonSelectReportsRowsAffected ==
    (Returned("one") /\ ret.call.stmt # "SELECT" /\ ret.qr.success) =>
        /\ ret.qr.data = <<>>
        /\ ret.qr.columns = <<>>
        /\ ret.qr.row_count = RowsAffected(ret.call.stmt)

\* C18: on every engine a parameter map binds to a named placeholder by key
\* and to a positional `?` in insertion order: sent with {"category":
\* "tools"}, `WHERE category = :category` and `WHERE category = ?` both
\* succeed and select the rows of that category, whenever the backend is
\* registered with a supported engine, answers, and has the table.
C18_DualPlaceholderBinding ==
    LET n == ret.call.name IN
    (/\ Returned("one")
     /\ ret.call.stmt \in {"SELECT :category", "SELECT ?"}
     /\ n \in Keys(configs)
     /\ TypeOf(n) \in QueryableEngines
     /\ Answer(n) = "ok"
     /\ DbBefore(n) >= 0) =>
        /\ ret.qr.success
        /\ ret.qr.data = Rows(DbBefore(n))

\* C19: Search returns an entry for every active backend: at least one match
\* with the table's name for a backend whose catalog has the table the term
\* names, the empty list for a backend without such a table.
HasTable(n) ==
    CASE TypeOf(n) = "sqlite" -> sqlite_db[n] >= 0
      [] TypeOf(n) = "postgresql" -> pg_db[n] >= 0
      [] OTHER -> FALSE

C19_SearchFindsMatchingTable ==
    Returned("search") =>
        /\ ret.kind = "value"
        /\ DOMAIN ret.results = ActiveNames(configs)
        /\ \A n \in ActiveNames(configs) :
            /\ (HasTable(n) /\ Answer(n) = "ok") =>
                    \E i \in DOMAIN ret.results[n] : ret.results[n][i].table_name = "items"
            /\ (~HasTable(n) /\ Answer(n) \in {"ok", "none"}) => ret.results[n] = <<>>

\* C20: in the result of Search a backend whose catalog query errored does
\* not have the entry of a backend that was searched and had no match, the
\* empty list.
C20_SearchErrorDistinguishable ==
    (Returned("search") /\ ret.kind = "value") =>
        \A n \in DOMAIN ret.results : n \in ret.loc.failed => ret.results[n] # <<>>

\* C21: the backends of a fan-out share no state: every entry of the map
\* Search returns is read from the catalog query of its own backend, whatever
\* the engines and their order of registration.
C21_SearchEntryFromOwnBackend ==
    (Returned("search") /\ ret.kind = "value") =>
        \A n \in DOMAIN ret.results : ret.loc.origin[n] = n

Idle == \A t \in Tasks : pc[t] = "idle"

StoredUnder(p) ==
    {n \in Keys(configs) : n \in DOMAIN connection_pools /\ connection_pools[n] = p}

\* C27: once the registrations and removals of a pooled name have all ended,
\* every pool that was created is closed or is stored under a registered
\* name, whatever their interleaving was.
C27_NoPoolLostOrLeaked ==
    Idle => \A p \in DOMAIN pools : pools[p].state = "closed" \/ StoredUnder(p) # {}

\* C28: the add endpoint answers a registration that add_database rejected
\* (duplicate name, unsupported engine, setup failure) with status 400.
C28_RejectedAddIs400 ==
    (Returned("add") /\ ~ret.ok) => ret.status = 400

\* C24: while no request is in progress a name is in the config map exactly
\* when it has a handle, in the map of embedded connections or in the map of
\* pools.
C24_ConfigIffHandle ==
    Idle => Keys(configs) = connections \cup DOMAIN connection_pools

HadHandle(snap) == snap.connections \cup DOMAIN snap.connection_pools

\* A query on n, as the state is, gets a connection.
Connects(n) ==
    \E o \in execute_query(n, "SELECT", configs, connections, connection_pools, pools,
                           sqlite_db, inserted) :
        o.kind = "suspend" \/ o.conn

\* C25: when close_all_connections has returned, every backend that had a
\* handle and is still listed gets a connection for its next query, or can be
\* registered again.
C25_HandleRecreatable ==
    (Returned("close_all") /\ ret.kind = "value") =>
        \A n \in Keys(configs) \cap HadHandle(Before) :
            Connects(n) \/ ~IsDuplicate(configs, n)

\* A SchemaDescription of backend n: a dict with the four keys.
IsDescription(d, n) ==
    /\ d # PyNone
    /\ {"database_name", "type", "tables", "success"} \subseteq DOMAIN d
    /\ d.database_name = n

\* C22: GetSchema returns a description for every name, registered with any
\* engine or not registered (then with success false and an error), never
\* None; GetAllSchemas returns one description for every active backend.
C22_SchemaAlwaysDescribed ==
    /\ (Returned("schema") /\ ret.kind = "value") =>
            /\ IsDescription(ret.schema, ret.call.name)
            /\ ret.call.name \notin Keys(Before.configs) =>
                    ~ret.schema.success /\ "error" \in DOMAIN ret.schema
    /\ (Returned("schemas") /\ ret.kind = "value") =>
            /\ DOMAIN ret.results = ret.loc.atStart
            /\ \A n \in DOMAIN ret.results : IsDescription(ret.results[n], n)

\* A catalog query of the introspection of n was answered with a failure.
CatalogFailed(n) == ret.loc.drv[n] \notin {"ok", "none"}

\* C23: a description returned by GetSchema has success false and a non-empty
\* error when a catalog query of the introspection failed, and success true
\* only when every catalog query succeeded.
C23_SchemaFailureCaptured ==
    (Returned("schema") /\ ret.kind = "value" /\ ret.schema # PyNone) =>
        /\ CatalogFailed(ret.call.name) =>
                /\ ~ret.schema.success
                /\ "error" \in DOMAIN ret.schema
                /\ ret.schema.error \notin {"", None}
        /\ ret.schema.success => ~CatalogFailed(ret.call.name)

\* The description of backend n that the registry and the catalogs of a
\* snapshot determine, every query being answered.
Described(snap, n) ==
    LET c == Get(snap.configs, n) IN
    CASE c.type = "postgresql" ->
            IF /\ n \in DOMAIN snap.connection_pools
               /\ snap.pools[snap.connection_pools[n]].state = "open"
            THEN [database_name |-> n, type |-> "postgresql", success |-> TRUE,
                  tables |-> <<[table_name |-> "items", column_name |-> "name"]>>]
            ELSE [database_name |-> n, type |-> "postgresql", success |-> FALSE,
                  tables |-> <<>>]
      [] c.type = "sqlite" ->
            [database_name |-> n, type |-> "sqlite", success |-> TRUE,
             tables |-> IF snap.sqlite_db[n] = -1 THEN <<>>
                        ELSE <<[table_name |-> "items",
                                columns |-> <<[name |-> "name"]>>]>>]
      [] OTHER -> PyNone

ExpectedSchemas(snap) == [n \in ActiveNames(snap.configs) |-> Described(snap, n)]

Answered == \A n \in DOMAIN ret.loc.drv : ret.loc.drv[n] \in {"ok", "none"}

\* C26: GetAllSchemas leaves the registry, the handles and every catalog as
\* they were, and what it returns while the backends answer is determined by
\* the registry and the catalogs alone, so that a second call with nothing
\* changed in between returns the same descriptions.
C26_GetAllSchemasIdempotentReadOnly ==
    Returned("schemas") =>
        /\ configs = Before.configs
        /\ connections = Before.connections
        /\ connection_pools = Before.connection_pools
        /\ pools = Before.pools
        /\ sqlite_db = Before.sqlite_db
        /\ pg_db = Before.pg_db
        /\ (ret.kind = "value" /\ Answered) => ret.results = ExpectedSchemas(Before)

C26_Witness ==
    /\ Returned("schemas")
    /\ ret.kind = "value"
    /\ Answered
    /\ \E n, m \in DOMAIN ret.results :
            /\ ret.results[n] # PyNone
            /\ ret.results[m] # PyNone
            /\ ret.results[n].type = "sqlite"
            /\ ret.results[n].tables # <<>>
            /\ ret.results[m].type = "postgresql"
            /\ ret.results[m].success

\* C29: the query endpoint called without a database name answers with a
\* successful result when a backend succeeded, with a result when there is
\* one, and with status 400 when no backend gave one.
C29_FirstSuccessfulResult ==
    (Returned("query") /\ ret.cause # "RuntimeError") =>
        /\ (\E n \in DOMAIN ret.loc.results : ret.loc.results[n].success) =>
                ret.kind = "value" /\ ret.qr.success
        /\ DOMAIN ret.loc.results # {} =>
                /\ ret.kind = "value"
                /\ \E n \in DOMAIN ret.loc.results : ret.qr = ret.loc.results[n]
        /\ DOMAIN ret.loc.results = {} => ret.status = 400

\* C30: every call of InMemoryCache.set returns, whatever max_size the cache
\* was built with, and a cache built with max_size >= 1 never holds more than
\* max_size entries.
C30_SetTerminatesWithinBound ==
    /\ [](cache.max_size >= 1 => Len(cache.od) <= cache.max_size)
    /\ ((cache.pc = "set") ~> (cache.pc = "idle"))

====
